---------------------------- MODULE Spec2Model ----------------------------
(***************************************************************************)
(* Logging bootstrap and router of phishing-detection-bert-ner             *)
(* (src/src/utils/logger.py) together with its caller src/src/cli.py.      *)
(*                                                                         *)
(* The state is the process-wide logging state the code configures: the    *)
(* root logger, the named-logger registry, the handlers attached to each   *)
(* logger, the directories the file sinks live in, the files written by    *)
(* the rotating sinks, and the position of the importing process.          *)
(*                                                                         *)
(* logging.config.dictConfig, logging.Logger, RotatingFileHandler,         *)
(* rich.logging.RichHandler and structlog's ProcessorFormatter are library *)
(* code the repository calls; each is modelled at the call site by what    *)
(* the call does with the arguments the repository passes.                 *)
(***************************************************************************)
EXTENDS Integers, Sequences, FiniteSets, TLC

VARIABLES
    env,          \* os.environ as read by the auto-bootstrap
    deps,         \* TRUE iff structlog and rich are importable
    logsDir,      \* "absent" | "present" | "readonly" | "blocked" : ./logs
    module,       \* "unloaded" | "loaded" | "failed" : src.utils.logger
    root,         \* the root logger
    loggers,      \* logging.Logger.manager.loggerDict (Logger entries)
    structlogJson,\* TRUE once structlog.configure(...) has run
    mlFilters,    \* TRUE once the three warnings filters are installed
    cli,          \* "none" | "ready" | "fallback" | "main_done" | "crashed"
    outcome,      \* how the last operation ended (and what it was given)
    files         \* the log files on disk: size and backups

vars == <<env, deps, logsDir, module, root, loggers, structlogJson,
          mlFilters, cli, outcome, files>>

-----------------------------------------------------------------------------
(* Severities: the numeric values of the logging module's level names.     *)

NOTSET == 0
DEBUG == 10
INFO == 20
WARNING == 30
ERROR == 40
CRITICAL == 50

Severities == {DEBUG, INFO, WARNING, ERROR, CRITICAL}

LevelNames == {"DEBUG", "INFO", "WARNING", "ERROR", "CRITICAL"}

BadLevel == 0 - 1

\* logging._checkLevel(name): the number of a level name, BadLevel (a
\* ValueError in the code) for a string that is no upper-case level name.
CheckLevel(s) ==
    CASE s = "DEBUG" -> DEBUG
      [] s = "INFO" -> INFO
      [] s = "WARNING" -> WARNING
      [] s = "ERROR" -> ERROR
      [] s = "CRITICAL" -> CRITICAL
      [] OTHER -> BadLevel

\* str.upper() on the level strings the model feeds to get_logger.
Upper(s) ==
    CASE s = "debug" -> "DEBUG"
      [] s = "Info" -> "INFO"
      [] s = "Error" -> "ERROR"
      [] s = "warning" -> "WARNING"
      [] s = "cRiTiCaL" -> "CRITICAL"
      [] s = "verbose" -> "VERBOSE"
      [] OTHER -> s

\* str.lower() on the flag strings the model puts in the environment.
Lower(s) ==
    CASE s = "TRUE" -> "true"
      [] s = "True" -> "true"
      [] s = "FALSE" -> "false"
      [] OTHER -> s

-----------------------------------------------------------------------------
(* Logger names.                                                           *)

App == "phishing_detection"
AppChild == "phishing_detection.core"
CliLogger == "src.cli"
Transformers == "transformers"
Urllib3 == "urllib3"
Requests == "requests"
Torch == "torch"

Names == {App, AppChild, CliLogger, Transformers, Urllib3, Requests, Torch}

\* The dotted-name ancestors of a name, nearest first (the root excluded).
LexAncestors(n) == IF n = AppChild THEN <<App>> ELSE <<>>

\* The names below a name in the dotted hierarchy.
LexDescendants(n) == {m \in Names : \E i \in 1..Len(LexAncestors(m)) : LexAncestors(m)[i] = n}

Unset == "<unset>"
NoFile == "<none>"

-----------------------------------------------------------------------------
(* Paths.                                                                  *)

DefaultLogFile == "logs/phishing_detection.log"
ErrorLogFile == "logs/errors.log"
OtherLogFile == "out/app.log"

LogFiles == {DefaultLogFile, ErrorLogFile, OtherLogFile}

\* Whether a file can be opened for appending: a file under logs/ when the
\* directory is there and writable ("present"; not "absent", "readonly" or
\* "blocked"); out/ is a directory nothing creates.
CanOpen(dir, path) ==
    IF path \in {DefaultLogFile, ErrorLogFile} THEN dir = "present" ELSE FALSE

-----------------------------------------------------------------------------
(* Handlers: the three sink definitions of the configuration dictionary.   *)

maxBytes == 10485760
GeneralBackupCount == 5
ErrorBackupCount == 3

\* "console": RichHandler or StreamHandler on stdout, threshold = level,
\* formatter "simple".
ConsoleHandler(level, use_rich) ==
    [name |-> "console",
     cls |-> IF use_rich THEN "rich.logging.RichHandler" ELSE "logging.StreamHandler",
     level |-> CheckLevel(level),
     formatter |-> "simple",
     filename |-> NoFile,
     backupCount |-> 0,
     closed |-> FALSE]

\* Mutant: the general file's threshold written as "INFO".
FileHandlerAtInfo(log_file, json_logs) ==
    [name |-> "file",
     cls |-> "logging.handlers.RotatingFileHandler",
     level |-> CheckLevel("INFO"),
     formatter |-> IF json_logs THEN "json" ELSE "detailed",
     filename |-> log_file,
     backupCount |-> GeneralBackupCount,
     closed |-> FALSE]

\* "file": the general rotating file, threshold "DEBUG" whatever the level
\* argument is, formatter by json_logs, 5 backups.
FileHandler(log_file, json_logs) ==
    [name |-> "file",
     cls |-> "logging.handlers.RotatingFileHandler",
     level |-> CheckLevel("DEBUG"),
     formatter |-> IF json_logs THEN "json" ELSE "detailed",
     filename |-> log_file,
     backupCount |-> GeneralBackupCount,
     closed |-> FALSE]

\* "error_file": logs/errors.log, threshold "ERROR", 3 backups.
ErrorFileHandler(json_logs) ==
    [name |-> "error_file",
     cls |-> "logging.handlers.RotatingFileHandler",
     level |-> CheckLevel("ERROR"),
     formatter |-> IF json_logs THEN "json" ELSE "detailed",
     filename |-> ErrorLogFile,
     backupCount |-> ErrorBackupCount,
     closed |-> FALSE]

\* A handler some other code attached to the root logger before this
\* module was loaded (the case the import-time guard tests for).
ExternalHandler ==
    [name |-> "external", cls |-> "logging.StreamHandler", level |-> NOTSET,
     formatter |-> "default", filename |-> NoFile, backupCount |-> 0,
     closed |-> FALSE]

\* The StreamHandler logging.basicConfig(level=logging.INFO) attaches.
BasicHandler ==
    [name |-> "basic", cls |-> "logging.StreamHandler", level |-> NOTSET,
     formatter |-> "default", filename |-> NoFile, backupCount |-> 0,
     closed |-> FALSE]

\* logging.lastResort: used by callHandlers when no handler is found.
LastResort ==
    [name |-> "lastResort", cls |-> "logging.StreamHandler", level |-> WARNING,
     formatter |-> "bare", filename |-> NoFile, backupCount |-> 0,
     closed |-> FALSE]

-----------------------------------------------------------------------------
(* Loggers.                                                                *)

AbsentLogger ==
    [exists |-> FALSE, level |-> NOTSET, propagate |-> TRUE,
     disabled |-> FALSE, handlers |-> <<>>]

NewLogger ==
    [exists |-> TRUE, level |-> NOTSET, propagate |-> TRUE,
     disabled |-> FALSE, handlers |-> <<>>]

\* The root logger as the logging module creates it: WARNING, no handlers.
FreshRoot ==
    [exists |-> TRUE, level |-> WARNING, propagate |-> TRUE,
     disabled |-> FALSE, handlers |-> <<>>]

\* logging.getLogger(name) on a registry: the entry, created on first use.
GetOrCreate(L, n) == IF L[n].exists THEN L ELSE [L EXCEPT ![n] = NewLogger]

\* The keys of loggerDict: every Logger, and a PlaceHolder for every dotted
\* ancestor of a Logger.
ExistingKeys(L) ==
    {n \in Names : L[n].exists \/ \E m \in LexDescendants(n) : L[m].exists}

-----------------------------------------------------------------------------
(* The logging state an operation works on, as one record S:               *)
(* [logsDir, root, loggers, structlogJson, mlFilters, files].              *)

Cur ==
    [logsDir |-> logsDir, root |-> root, loggers |-> loggers,
     structlogJson |-> structlogJson, mlFilters |-> mlFilters, files |-> files]

NoFileOnDisk == [exists |-> FALSE, size |-> 0, backups |-> <<>>]

\* Opening a file sink in append mode creates the file when it is missing.
Touch(F, path) == [F EXCEPT ![path].exists = TRUE]

-----------------------------------------------------------------------------
(* logging.config.dictConfig(config) with the dictionary of setup_logging. *)

\* Mutant: clearing the existing handlers also detaches them.
ShutdownDetaches(lg) == [lg EXCEPT !.handlers = <<>>]

\* logging.shutdown(): every handler object that exists is flushed and
\* closed; it stays attached to the logger that holds it.
ShutdownHandlers(lg) ==
    [lg EXCEPT !.handlers = [i \in DOMAIN lg.handlers |-> [lg.handlers[i] EXCEPT !.closed = TRUE]]]

\* The handlers are built in sorted key order: console, error_file, file.
\* The first one whose construction raises, "none" when all three are built.
\*  - console: the dictionary's remaining key "stream" is passed to the
\*    handler class as a keyword argument; StreamHandler takes it,
\*    RichHandler's constructor has no such parameter (TypeError, and again
\*    for the retry with "strm"), so use_rich fails here.  The level string
\*    is checked after construction.
\*  - error_file, file: RotatingFileHandler opens its file at construction,
\*    which fails when the directory of the file does not exist.
HandlerFailure(dir, level, path, use_rich) ==
    IF use_rich THEN "console"
    ELSE IF CheckLevel(level) = BadLevel THEN "console"
    ELSE IF ~CanOpen(dir, ErrorLogFile) THEN "error_file"
    ELSE IF ~CanOpen(dir, path) THEN "file"
    ELSE "none"

\* Mutant: the key left out, so dictConfig's default applies.
DisableExistingDefault == TRUE

\* "disable_existing_loggers": False
DisableExistingLoggers == FALSE

\* The handler lists of the two loggers that get sinks.
RootHandlers(level, path, use_rich, json_logs) ==
    <<ConsoleHandler(level, use_rich), FileHandler(path, json_logs)>>

AppHandlers(level, path, use_rich, json_logs) ==
    <<ConsoleHandler(level, use_rich), FileHandler(path, json_logs),
      ErrorFileHandler(json_logs)>>

\* common_logger_config on a logger that the dictionary names: the level is
\* set, every handler already attached is removed, the listed ones are added.
ReplaceHandlers(old, new) == new

\* Mutant: a root logger that has handlers keeps them and its level.
ConfigureRootFirstWins(r, level, path, use_rich, json_logs) ==
    IF r.handlers # <<>>
    THEN [r EXCEPT !.handlers = [i \in DOMAIN r.handlers |-> [r.handlers[i] EXCEPT !.closed = FALSE]]]
    ELSE [exists |-> TRUE, level |-> CheckLevel(level), propagate |-> FALSE,
          disabled |-> FALSE,
          handlers |-> RootHandlers(level, path, use_rich, json_logs)]

\* The "" entry of "loggers": the root logger.
ConfigureRoot(r, level, path, use_rich, json_logs) ==
    [exists |-> TRUE, level |-> CheckLevel(level), propagate |-> FALSE,
     disabled |-> FALSE,
     handlers |-> ReplaceHandlers(r.handlers, RootHandlers(level, path, use_rich, json_logs))]

\* The third-party names the dictionary lists.
ConfiguredThirdParty == {Transformers, Urllib3, Requests}

\* The named loggers of the dictionary, and what happens to the loggers
\* that exist but are not named (_handle_existing_loggers): an existing
\* child of a named logger is reset to NOTSET, no handlers, propagate; any
\* other existing logger gets disabled = disable_existing_loggers.
ConfigureLoggers(L, level, path, use_rich, json_logs) ==
    LET existing == ExistingKeys(L)
        named == {App} \cup ConfiguredThirdParty
        children == UNION {LexDescendants(c) \cap existing : c \in named \cap existing}
    IN [n \in Names |->
          IF n = App
          THEN [exists |-> TRUE, level |-> CheckLevel(level), propagate |-> FALSE,
                disabled |-> FALSE,
                handlers |-> ReplaceHandlers(L[n].handlers, AppHandlers(level, path, use_rich, json_logs))]
          ELSE IF n \in ConfiguredThirdParty
          THEN [exists |-> TRUE, level |-> CheckLevel("WARNING"), propagate |-> TRUE,
                disabled |-> FALSE, handlers |-> ReplaceHandlers(L[n].handlers, <<>>)]
          ELSE IF ~L[n].exists THEN L[n]
          ELSE IF n \in children
          THEN [L[n] EXCEPT !.level = NOTSET, !.handlers = <<>>, !.propagate = TRUE]
          ELSE [L[n] EXCEPT !.disabled = DisableExistingLoggers]]

\* dictConfig: existing handlers are shut down first; if a handler cannot be
\* built the call raises ValueError with the loggers untouched since; else
\* the loggers are configured.  The result is [ok, S].
DictConfig(S, level, path, use_rich, json_logs) ==
    LET fail == HandlerFailure(S.logsDir, level, path, use_rich)
        closedRoot == ShutdownHandlers(S.root)
        closedL == [n \in Names |-> ShutdownHandlers(S.loggers[n])]
    IN IF fail # "none"
       THEN [ok |-> FALSE,
             S |-> [S EXCEPT !.root = closedRoot, !.loggers = closedL,
                             !.files = IF fail = "file" THEN Touch(S.files, ErrorLogFile) ELSE S.files]]
       ELSE [ok |-> TRUE,
             S |-> [S EXCEPT !.root = ConfigureRoot(closedRoot, level, path, use_rich, json_logs),
                             !.loggers = ConfigureLoggers(closedL, level, path, use_rich, json_logs),
                             !.files = Touch(Touch(S.files, ErrorLogFile), path)]]

-----------------------------------------------------------------------------
(* setup_logging(level, log_file, use_rich, json_logs)                     *)

\* The default log file, structlog.configure when json_logs, then
\* dictConfig.  The two Console().print lines come after dictConfig under
\* "if use_rich", which dictConfig never returns from; they change nothing
\* in this state.  The result is [ok, S].
SetupLoggingOn(S, level, log_file, use_rich, json_logs) ==
    LET path == IF log_file = NoFile THEN DefaultLogFile ELSE log_file
        S1 == [S EXCEPT !.structlogJson = S.structlogJson \/ json_logs]
    IN DictConfig(S1, level, path, use_rich, json_logs)

-----------------------------------------------------------------------------
(* setup_ml_logging()                                                      *)

MlLoggers == {Transformers, Torch, Urllib3}

\* Mutant: the three loggers are set to INFO.
SetupMlLoggingInfo(S) ==
    [S EXCEPT !.mlFilters = TRUE,
              !.loggers = [n \in Names |->
                             IF n \in MlLoggers
                             THEN [GetOrCreate(S.loggers, n)[n] EXCEPT !.level = INFO]
                             ELSE S.loggers[n]]]

\* The three warnings filters, then setLevel(WARNING) on three loggers,
\* each created by getLogger when it does not exist yet.
SetupMlLoggingOn(S) ==
    [S EXCEPT !.mlFilters = TRUE,
              !.loggers = [n \in Names |->
                             IF n \in MlLoggers
                             THEN [GetOrCreate(S.loggers, n)[n] EXCEPT !.level = WARNING]
                             ELSE S.loggers[n]]]

-----------------------------------------------------------------------------
(* get_logger(name, level)                                                 *)

NoLevel == "<None>"

\* Mutant: a level string the logging module does not know means INFO.
LevelAttrOrInfo(level) ==
    IF CheckLevel(Upper(level)) = BadLevel THEN INFO ELSE CheckLevel(Upper(level))

\* getattr(logging, level.upper()): the number, BadLevel (AttributeError in
\* the code) when the logging module has no attribute of that name.
LevelAttr(level) == CheckLevel(Upper(level))

\* Mutant: the level is set only on a logger that has none of its own.
GetLoggerKeepsLevel(S, n, level) ==
    LET L1 == GetOrCreate(S.loggers, n)
    IN IF level = NoLevel THEN [ok |-> TRUE, S |-> [S EXCEPT !.loggers = L1]]
       ELSE IF LevelAttr(level) = BadLevel
       THEN [ok |-> FALSE, S |-> [S EXCEPT !.loggers = L1]]
       ELSE [ok |-> TRUE,
             S |-> [S EXCEPT !.loggers =
                      [L1 EXCEPT ![n].level = IF L1[n].level = NOTSET THEN LevelAttr(level)
                                               ELSE L1[n].level]]]

\* logging.getLogger(name), then setLevel when a level is given.  The entry
\* is created before the level is looked up.  The result is [ok, S].
GetLoggerOn(S, n, level) ==
    LET L1 == GetOrCreate(S.loggers, n)
    IN IF level = NoLevel THEN [ok |-> TRUE, S |-> [S EXCEPT !.loggers = L1]]
       ELSE IF LevelAttr(level) = BadLevel
       THEN [ok |-> FALSE, S |-> [S EXCEPT !.loggers = L1]]
       ELSE [ok |-> TRUE,
             S |-> [S EXCEPT !.loggers = [L1 EXCEPT ![n].level = LevelAttr(level)]]]

-----------------------------------------------------------------------------
(* Emitting a record: Logger.log -> isEnabledFor -> callHandlers.          *)

RootName == ""

Handles(S) == {RootName} \cup {n \in Names : S.loggers[n].exists}

LoggerOf(S, n) == IF n = RootName THEN S.root ELSE S.loggers[n]

\* The logger, then its existing ancestors nearest first, then the root.
ParentChain(S, n) ==
    IF n = RootName THEN <<RootName>>
    ELSE <<n>> \o SelectSeq(LexAncestors(n), LAMBDA a : S.loggers[a].exists) \o <<RootName>>

RECURSIVE FirstLevel(_, _, _)
FirstLevel(S, chain, i) ==
    IF i > Len(chain) THEN NOTSET
    ELSE IF LoggerOf(S, chain[i]).level # NOTSET THEN LoggerOf(S, chain[i]).level
    ELSE FirstLevel(S, chain, i + 1)

\* Logger.getEffectiveLevel
EffectiveLevel(S, n) == FirstLevel(S, ParentChain(S, n), 1)

\* Logger.isEnabledFor
IsEnabledFor(S, n, sev) == ~LoggerOf(S, n).disabled /\ sev >= EffectiveLevel(S, n)

RECURSIVE Collect(_, _, _)
Collect(S, chain, i) ==
    IF i > Len(chain) THEN <<>>
    ELSE LoggerOf(S, chain[i]).handlers
         \o (IF LoggerOf(S, chain[i]).propagate THEN Collect(S, chain, i + 1) ELSE <<>>)

\* The handlers callHandlers finds: those of the logger and of its
\* ancestors up to the first one that does not propagate.
Found(S, n) == Collect(S, ParentChain(S, n), 1)

\* The handlers that handle a record of severity sev logged through n, in
\* order: none when the logger is not enabled for sev; lastResort when no
\* handler is found; else every found handler whose threshold is <= sev.
Route(S, n, sev) ==
    IF ~IsEnabledFor(S, n, sev) THEN <<>>
    ELSE IF Found(S, n) = <<>>
    THEN (IF sev >= LastResort.level THEN <<LastResort>> ELSE <<>>)
    ELSE SelectSeq(Found(S, n), LAMBDA h : sev >= h.level)

\* The names of the sinks a record reaches.
Sinks(S, n, sev) == {Route(S, n, sev)[i].name : i \in DOMAIN Route(S, n, sev)}

\* The fields of the line a formatter writes for a record.
\*  detailed: asctime - name - levelname - module:lineno - message
\*  simple:   levelname - name - message
\*  json:     ProcessorFormatter(processor=JSONRenderer()) with no
\*            foreign_pre_chain renders a standard-library record as the
\*            event dictionary {"event": <message>} and nothing else
\*  default:  levelname:name:message (logging.BASIC_FORMAT)
\*  bare:     message
LineFields(formatter) ==
    CASE formatter = "detailed" -> {"asctime", "name", "levelname", "module", "lineno", "message"}
      [] formatter = "simple" -> {"levelname", "name", "message"}
      [] formatter = "json" -> {"event"}
      [] formatter = "default" -> {"levelname", "name", "message"}
      [] OTHER -> {"message"}

\* Whether a line is one self-contained JSON object.
IsJsonLine(formatter) == formatter = "json"

-----------------------------------------------------------------------------
(* Loading src/utils/logger.py: the module's top-level code.               *)

\* os.getenv(name, default)
GetEnv(e, name, default) == IF e[name] = Unset THEN default ELSE e[name]

\* What the guarded block at the end of the module passes to setup_logging.
BootLevel(e) == GetEnv(e, "LOG_LEVEL", "INFO")
BootJson(e) == Lower(GetEnv(e, "JSON_LOGS", "false")) = "true"
BootRich(e) == Lower(GetEnv(e, "RICH_LOGS", "true")) = "true"

\* The guard of the bootstrap block.
RootHasHandlers(S) == S.root.handlers # <<>>

\* The bootstrap block: setup_logging(level, use_rich, json_logs) from the
\* environment, then setup_ml_logging(); an exception of setup_logging
\* leaves the block.  The result is [status, S].
Bootstrap(S, e) ==
    LET r == SetupLoggingOn(S, BootLevel(e), NoFile, BootRich(e), BootJson(e))
    IN IF r.ok THEN [status |-> "ok", S |-> SetupMlLoggingOn(r.S)]
       ELSE [status |-> "ValueError", S |-> r.S]

\* LOGS_DIR.mkdir(exist_ok=True): creates logs when absent, accepts an
\* existing directory; "blocked" (it cannot be created) raises before this.
Mkdir(dir) == IF dir = "absent" THEN "present" ELSE dir

\* The whole module body: the imports (ImportError without structlog or
\* rich), the mkdir (OSError when logs cannot be created), the definitions,
\* and the bootstrap block when the root logger has no handlers.
LoadModuleOn(S, e, d) ==
    IF ~d THEN [status |-> "ImportError", S |-> S]
    ELSE IF S.logsDir = "blocked" THEN [status |-> "OSError", S |-> S]
    ELSE LET S1 == [S EXCEPT !.logsDir = Mkdir(S.logsDir)]
         IN IF RootHasHandlers(S1) THEN [status |-> "ok", S |-> S1]
            ELSE Bootstrap(S1, e)

-----------------------------------------------------------------------------
(* Writing a record to a rotating file sink (RotatingFileHandler.emit).    *)

\* Mutant: a rollover that never drops a backup.
RolloverUncapped(f, backupCount) ==
    [f EXCEPT !.backups = <<f.size>> \o f.backups, !.size = 0]

\* doRollover: base.(k) -> base.(k+1) for k = backupCount-1 .. 1, replacing
\* what is there, then base -> base.1.  The backups are kept newest first;
\* with backupCount of them already, the last (oldest) one is replaced.
Rollover(f, backupCount) ==
    [f EXCEPT !.backups = <<f.size>> \o SubSeq(f.backups, 1,
                              IF Len(f.backups) < backupCount THEN Len(f.backups) ELSE backupCount - 1),
              !.size = 0]

\* shouldRollover: the file's size plus the line's length reaches maxBytes.
ShouldRollover(f, size) == f.size + size >= maxBytes

\* emit: roll over when due, then append the line.  An open that fails
\* (the directory is gone) goes to handleError and writes nothing.
WriteRecord(dir, F, h, size) ==
    IF h.filename = NoFile \/ ~CanOpen(dir, h.filename) THEN F
    ELSE LET f0 == [F[h.filename] EXCEPT !.exists = TRUE]
             f1 == IF ShouldRollover(f0, size) THEN Rollover(f0, h.backupCount) ELSE f0
         IN [F EXCEPT ![h.filename] = [f1 EXCEPT !.size = f1.size + size]]

RECURSIVE WriteAll(_, _, _, _, _)
WriteAll(dir, F, hs, i, size) ==
    IF i > Len(hs) THEN F
    ELSE WriteAll(dir, WriteRecord(dir, F, hs[i], size), hs, i + 1, size)

\* One logging call through handle n at severity sev whose formatted line
\* is size bytes long: every handler of Route handles it in order.
EmitOn(S, n, sev, size) ==
    [S EXCEPT !.files = WriteAll(S.logsDir, S.files, Route(S, n, sev), 1, size)]

-----------------------------------------------------------------------------
(* src/cli.py                                                              *)

\* logging.basicConfig(level=logging.INFO): does nothing when the root
\* logger has handlers; else a StreamHandler is attached and the level set.
BasicConfigOn(S) ==
    IF RootHasHandlers(S) THEN S
    ELSE [S EXCEPT !.root = [S.root EXCEPT !.handlers = <<BasicHandler>>, !.level = INFO]]

\* Mutant: a bare "except:" around the import.
CliCatchesAny(status) == status # "ok"

\* The import block: "from src.utils.logger import ..." inside
\* try/except ImportError, with the basicConfig fallback.
CliCatches(status) == status = "ImportError"

\* Module level of cli.py: the import block, then logger = get_logger(__name__).
\* The result is [cli, status, S].
CliImportOn(S, e, d, loaded) ==
    LET r == IF loaded THEN [status |-> "ok", S |-> S] ELSE LoadModuleOn(S, e, d)
    IN IF r.status = "ok"
       THEN [cli |-> "ready", status |-> "ok", S |-> GetLoggerOn(r.S, CliLogger, NoLevel).S]
       ELSE IF CliCatches(r.status)
       THEN [cli |-> "fallback", status |-> r.status,
             S |-> GetLoggerOn(BasicConfigOn(r.S), CliLogger, NoLevel).S]
       ELSE [cli |-> "crashed", status |-> r.status, S |-> r.S]

\* The group callback main(ctx, verbose): with verbose, setup_logging(level="DEBUG").
\* On the fallback path the name setup_logging is not defined (NameError).
\* The result is [cli, status, S].
CliMainOn(S, path, verbose) ==
    IF ~verbose THEN [cli |-> "main_done", status |-> "ok", S |-> S]
    ELSE IF path = "fallback" THEN [cli |-> "crashed", status |-> "NameError", S |-> S]
    ELSE LET r == SetupLoggingOn(S, "DEBUG", NoFile, TRUE, FALSE)
         IN IF r.ok THEN [cli |-> "main_done", status |-> "ok", S |-> r.S]
            ELSE [cli |-> "crashed", status |-> "ValueError", S |-> r.S]

-----------------------------------------------------------------------------
(* Bounds and input sets.                                                  *)

\* Record lengths tried: maxBytes/2 and MaxRecordSteps steps of maxBytes/10 above it.
MaxRecordSteps == 1

RecordSizes == {(maxBytes \div 2) + k * (maxBytes \div 10) : k \in 0..MaxRecordSteps}

\* Argument tuples given to setup_logging: every level with and without
\* json_logs on a plain console, the all-defaults call, a string that is
\* no level name, and a log file in a directory that does not exist.
SetupArgs ==
    {<<l, NoFile, FALSE, j>> : l \in LevelNames, j \in BOOLEAN}
    \cup {<<"INFO", NoFile, TRUE, FALSE>>,
          <<"debug", NoFile, FALSE, FALSE>>,
          <<"INFO", OtherLogFile, FALSE, FALSE>>}

\* Names and level arguments given to get_logger.
GetLoggerNames == {AppChild, CliLogger, Transformers}
GetLoggerLevels == {NoLevel, "DEBUG", "Error", "verbose"}

\* The calls of the combined specification: two that return with different
\* levels and formats, the all-defaults call, and a log file in a directory
\* that does not exist.
CallArgs ==
    {<<"INFO", NoFile, FALSE, FALSE>>,
     <<"ERROR", NoFile, FALSE, TRUE>>,
     <<"INFO", NoFile, TRUE, FALSE>>,
     <<"INFO", OtherLogFile, FALSE, TRUE>>}

CallNames == {AppChild, Transformers, Torch}
CallLevels == {NoLevel, "debug", "verbose"}

\* Values of the three environment variables.
EnvLevels == {Unset, "DEBUG", "ERROR", "debug"}
EnvFlags == {Unset, "true", "TRUE", "false"}

EnvOf(level, json, rich) == [LOG_LEVEL |-> level, JSON_LOGS |-> json, RICH_LOGS |-> rich]

-----------------------------------------------------------------------------
(* The state machine.                                                      *)

Assign(S) ==
    /\ logsDir' = S.logsDir
    /\ root' = S.root
    /\ loggers' = S.loggers
    /\ structlogJson' = S.structlogJson
    /\ mlFilters' = S.mlFilters
    /\ files' = S.files

\* How an operation ended: the operation, "ok" or the exception, and for a
\* direct setup_logging call the arguments it was given.
ResultOf(op, status, args) == [op |-> op, status |-> status, args |-> args]

Result(op, status) == ResultOf(op, status, <<>>)

InitCommon ==
    /\ module = "unloaded"
    /\ loggers = [n \in Names |-> AbsentLogger]
    /\ structlogJson = FALSE
    /\ mlFilters = FALSE
    /\ cli = "none"
    /\ outcome = Result("none", "ok")
    /\ files = [p \in LogFiles |-> NoFileOnDisk]

FreshRootWith(h) == [FreshRoot EXCEPT !.handlers = <<h>>]

\* A fresh process whose dependencies are installed and whose logs
\* directory can be created: either other code has attached a handler to
\* the root logger already, or the bootstrap will run on the environment.
Init ==
    /\ InitCommon
    /\ deps = TRUE
    /\ logsDir = "absent"
    /\ \/ env = EnvOf(Unset, Unset, Unset) /\ root \in {FreshRoot, FreshRootWith(ExternalHandler)}
       \/ env \in {EnvOf(Unset, Unset, "false"), EnvOf("DEBUG", "true", "false")} /\ root = FreshRoot

\* A fresh process in any environment.
InitBoot ==
    /\ InitCommon
    /\ env \in {EnvOf(l, j, r) : l \in EnvLevels, j \in EnvFlags, r \in EnvFlags}
    /\ deps \in BOOLEAN
    /\ logsDir \in {"absent", "present", "readonly", "blocked"}
    /\ root \in {FreshRoot, FreshRootWith(ExternalHandler)}

\* A fresh process whose bootstrap configures plain-console logging.
InitRotation ==
    /\ InitCommon
    /\ env = EnvOf(Unset, Unset, "false")
    /\ deps = TRUE
    /\ logsDir = "absent"
    /\ root = FreshRoot

\* A fresh process with or without its dependencies and a writable logs
\* directory, with the default environment or a plain console asked for.
InitCalls ==
    /\ InitCommon
    /\ env \in {EnvOf(Unset, Unset, Unset), EnvOf(Unset, Unset, "false")}
    /\ deps \in BOOLEAN
    /\ logsDir \in {"absent", "readonly"}
    /\ root \in {FreshRoot, FreshRootWith(ExternalHandler)}

\* A fresh process that asks for a plain console, with or without a handler
\* on the root logger already.
InitDirectory ==
    /\ InitCommon
    /\ env = EnvOf(Unset, Unset, "false")
    /\ deps = TRUE
    /\ logsDir = "absent"
    /\ root \in {FreshRoot, FreshRootWith(ExternalHandler)}

\* A fresh process with a handler on the root logger already (the bootstrap
\* is skipped), or one that asks for a plain console.
InitNoise ==
    /\ InitCommon
    /\ deps = TRUE
    /\ logsDir = "absent"
    /\ \/ env = EnvOf(Unset, Unset, Unset) /\ root = FreshRootWith(ExternalHandler)
       \/ env = EnvOf(Unset, Unset, "false") /\ root = FreshRoot

\* Some code of the process imports src.utils.logger (also again after a
\* failed import, which leaves no module behind).
ImportLogger ==
    /\ cli = "none"
    /\ module # "loaded"
    /\ LET r == LoadModuleOn(Cur, env, deps)
       IN /\ Assign(r.S)
          /\ module' = IF r.status = "ok" THEN "loaded" ELSE "failed"
          /\ outcome' = Result("import", r.status)
    /\ UNCHANGED <<env, deps, cli>>

\* cli.py is loaded (python run_cli.py, or the phishing-detect entry point).
CliImport ==
    /\ cli = "none"
    /\ LET r == CliImportOn(Cur, env, deps, module = "loaded")
       IN /\ Assign(r.S)
          /\ cli' = r.cli
          /\ module' = IF r.cli = "ready" THEN "loaded"
                       ELSE IF module = "loaded" THEN module ELSE "failed"
          /\ outcome' = Result("cli_import", r.status)
    /\ UNCHANGED <<env, deps>>

\* click calls the group callback.
CliMain(verbose) ==
    /\ cli \in {"ready", "fallback"}
    /\ LET r == CliMainOn(Cur, cli, verbose)
       IN /\ Assign(r.S)
          /\ cli' = r.cli
          /\ outcome' = Result("cli_main", r.status)
    /\ UNCHANGED <<env, deps, module>>

\* A caller calls setup_logging.
SetupLogging(level, log_file, use_rich, json_logs) ==
    /\ module = "loaded"
    /\ cli # "crashed"
    /\ LET r == SetupLoggingOn(Cur, level, log_file, use_rich, json_logs)
       IN /\ Assign(r.S)
          /\ outcome' = ResultOf("setup_logging", IF r.ok THEN "ok" ELSE "ValueError",
                                  <<level, log_file, use_rich, json_logs>>)
    /\ UNCHANGED <<env, deps, module, cli>>

\* A caller calls get_logger.
GetLogger(n, level) ==
    /\ module = "loaded"
    /\ cli # "crashed"
    /\ LET r == GetLoggerOn(Cur, n, level)
       IN /\ Assign(r.S)
          /\ outcome' = Result("get_logger", IF r.ok THEN "ok" ELSE "AttributeError")
    /\ UNCHANGED <<env, deps, module, cli>>

\* A caller calls setup_ml_logging.
SetupMlLogging ==
    /\ module = "loaded"
    /\ cli # "crashed"
    /\ Assign(SetupMlLoggingOn(Cur))
    /\ outcome' = Result("setup_ml_logging", "ok")
    /\ UNCHANGED <<env, deps, module, cli>>

\* A holder of a handle logs one record.
Emit(n, sev, size) ==
    /\ cli # "crashed"
    /\ n \in Handles(Cur)
    /\ Assign(EmitOn(Cur, n, sev, size))
    /\ outcome' = Result("log", "ok")
    /\ UNCHANGED <<env, deps, module, cli>>

\* The directory logs/ of the working directory goes away after the module
\* was loaded: it is removed with its files, or the process changes to a
\* working directory that has none (LOGS_DIR is the relative path "logs").
RemoveLogsDir ==
    /\ module = "loaded"
    /\ cli # "crashed"
    /\ logsDir = "present"
    /\ logsDir' = "absent"
    /\ files' = [p \in LogFiles |-> NoFileOnDisk]
    /\ outcome' = Result("remove_logs_dir", "ok")
    /\ UNCHANGED <<env, deps, module, cli, root, loggers, structlogJson, mlFilters>>

\* The library's operations, as any caller in the process may use them.
Next ==
    \/ ImportLogger
    \/ \E a \in SetupArgs : SetupLogging(a[1], a[2], a[3], a[4])
    \/ \E n \in GetLoggerNames, l \in GetLoggerLevels : GetLogger(n, l)
    \/ SetupMlLogging

Spec == Init /\ [][Next]_vars

\* Process start: the module is imported directly or through cli.py, and
\* click runs the group callback.
NextBoot ==
    \/ ImportLogger
    \/ CliImport
    \/ \E v \in BOOLEAN : CliMain(v)

SpecBoot == InitBoot /\ [][NextBoot]_vars

\* Records written through the application logger and the root logger of a
\* configured process.
NextRotation ==
    \/ ImportLogger
    \/ \E n \in {App, RootName}, sev \in {INFO, ERROR}, size \in RecordSizes : Emit(n, sev, size)

SpecRotation == InitRotation /\ [][NextRotation]_vars

\* A configured process whose logs directory may go away between calls.
NextDirectory ==
    \/ ImportLogger
    \/ RemoveLogsDir
    \/ \E a \in CallArgs : SetupLogging(a[1], a[2], a[3], a[4])
    \/ \E n \in {App, RootName}, sev \in {INFO, ERROR} : Emit(n, sev, maxBytes \div 2)

SpecDirectory == InitDirectory /\ [][NextDirectory]_vars

\* setup_logging and setup_ml_logging in any order after the load, and
\* records of the third-party loggers.
NextNoise ==
    \/ ImportLogger
    \/ \E a \in SetupArgs : SetupLogging(a[1], a[2], a[3], a[4])
    \/ SetupMlLogging
    \/ \E n \in {Transformers, Torch, Requests}, sev \in {INFO, WARNING} : Emit(n, sev, maxBytes \div 2)

SpecNoise == InitNoise /\ [][NextNoise]_vars

\* The library and cli.py together: a process that may or may not have its
\* dependencies and a writable logs directory, loads cli.py or the module,
\* and calls the three functions in any order.
NextCalls ==
    \/ ImportLogger
    \/ CliImport
    \/ \E v \in BOOLEAN : CliMain(v)
    \/ \E a \in CallArgs : SetupLogging(a[1], a[2], a[3], a[4])
    \/ \E n \in CallNames, l \in CallLevels : GetLogger(n, l)
    \/ SetupMlLogging

SpecCalls == InitCalls /\ [][NextCalls]_vars

-----------------------------------------------------------------------------
(* Vocabulary of the properties.                                           *)

SinkNames(lg) == [i \in DOMAIN lg.handlers |-> lg.handlers[i].name]

\* The three sinks are attached as the configuration dictionary lists them.
Configured(S) ==
    /\ SinkNames(S.root) = <<"console", "file">>
    /\ SinkNames(S.loggers[App]) = <<"console", "file", "error_file">>

\* A handler without the mark logging.shutdown leaves on it.
Sink(h) ==
    [name |-> h.name, cls |-> h.cls, level |-> h.level,
     formatter |-> h.formatter, filename |-> h.filename]

\* The active configuration: root level, sink set, thresholds, formatters.
ActiveConfig(S) ==
    [level |-> S.root.level,
     sinks |-> [i \in DOMAIN S.root.handlers |-> Sink(S.root.handlers[i])]]

\* The handler of a given name on a logger (the logger has one).
HandlerNamed(lg, name) ==
    lg.handlers[CHOOSE i \in DOMAIN lg.handlers : lg.handlers[i].name = name]

\* No threshold is set on the logger or on an ancestor below the root.
InheritsRootLevel(S, n) ==
    \A i \in 1..(Len(ParentChain(S, n)) - 1) : LoggerOf(S, ParentChain(S, n)[i]).level = NOTSET

InApp(n) == n \in {App, AppChild}

-----------------------------------------------------------------------------
(* C1                                                                      *)

\* The last operation was setup_logging(level, use_rich, json_logs) with a
\* level name and the default log file.
AfterSetupCall ==
    /\ outcome.op = "setup_logging"
    /\ outcome.args[1] \in LevelNames
    /\ outcome.args[2] = NoFile

\* C1: after a setup_logging call with any level name and flags, the first
\* or a later one, the root logger has exactly the sinks console and file
\* and 'phishing_detection' exactly console, file and error_file, each
\* once.
C1_SinksAfterSetup ==
    AfterSetupCall =>
      /\ SinkNames(root) = <<"console", "file">>
      /\ SinkNames(loggers[App]) = <<"console", "file", "error_file">>

-----------------------------------------------------------------------------
(* C2                                                                      *)

\* C2: with the sinks attached, a record at ERROR or CRITICAL logged
\* through any handle reaches the error-only sink, and no record below
\* ERROR reaches it.
C2_ErrorSinkGetsEveryError ==
    Configured(Cur) =>
      \A n \in Handles(Cur), sev \in Severities :
        ("error_file" \in Sinks(Cur, n, sev)) <=> (sev >= ERROR)

-----------------------------------------------------------------------------
(* C3                                                                      *)

\* C3 as claimed: with configured threshold T, through every handle a
\* record below T reaches no sink and a record at or above T reaches every
\* sink on the handle's chain whose threshold is at most the severity.
C3_RoutingByConfiguredLevel ==
    Configured(Cur) =>
      \A n \in Handles(Cur), sev \in Severities :
        /\ sev < Cur.root.level => Sinks(Cur, n, sev) = {}
        /\ sev >= Cur.root.level =>
             \A i \in DOMAIN Found(Cur, n) :
               Found(Cur, n)[i].level <= sev => Found(Cur, n)[i].name \in Sinks(Cur, n, sev)

\* C3 amended: routing is decided by the handle's effective level E (the
\* first threshold set on it or an ancestor, else the configured T): below
\* E nothing is written; at or above E the record reaches the general file
\* always, the console iff it is at or above T, and the error file iff it
\* is at or above ERROR and the handle is in the 'phishing_detection'
\* hierarchy; E = T for a handle with no threshold set below the root.
C3_RoutingByEffectiveLevel ==
    Configured(Cur) =>
      \A n \in Handles(Cur), sev \in Severities :
        LET E == EffectiveLevel(Cur, n)
            T == Cur.root.level
            out == Sinks(Cur, n, sev)
        IN /\ sev < E => out = {}
           /\ sev >= E =>
                /\ "file" \in out
                /\ ("console" \in out) <=> (sev >= T)
                /\ ("error_file" \in out) <=> (sev >= ERROR /\ InApp(n))
                /\ out \subseteq {"console", "file", "error_file"}
           /\ InheritsRootLevel(Cur, n) => E = T
           /\ T \in Severities

\* A handle overridden to DEBUG under T = INFO: its DEBUG record reaches the
\* general file only.
C3_Witness ==
    /\ Configured(Cur)
    /\ Cur.root.level = INFO
    /\ loggers[CliLogger].exists
    /\ loggers[CliLogger].level = DEBUG
    /\ Sinks(Cur, CliLogger, DEBUG) = {"file"}
    /\ Sinks(Cur, RootName, DEBUG) = {}

-----------------------------------------------------------------------------
(* C4                                                                      *)

\* C4 as claimed: once setup_logging has attached the sinks to the root
\* logger, no later step changes the active configuration.
C4_FirstInitializationWins ==
    [][SinkNames(root) = <<"console", "file">> => ActiveConfig(Cur)' = ActiveConfig(Cur)]_vars

\* The configuration a setup_logging call describes.
RequestedConfig(level, log_file, use_rich, json_logs) ==
    LET path == IF log_file = NoFile THEN DefaultLogFile ELSE log_file
        hs == RootHandlers(level, path, use_rich, json_logs)
    IN [level |-> CheckLevel(level), sinks |-> [i \in DOMAIN hs |-> Sink(hs[i])]]

\* C4 amended: only the import-time block is guarded by "the root logger
\* has handlers"; a setup_logging call that returns replaces the active
\* configuration by the one its arguments describe (the last call that
\* returned wins), and a call that raises leaves root level, sink set,
\* thresholds and formatters as they were.
C4_LastReturnedCallWins ==
    /\ module = "loaded" =>
         \A a \in SetupArgs :
           LET r == SetupLoggingOn(Cur, a[1], a[2], a[3], a[4])
           IN IF r.ok THEN ActiveConfig(r.S) = RequestedConfig(a[1], a[2], a[3], a[4])
              ELSE ActiveConfig(r.S) = ActiveConfig(Cur)
    /\ RootHasHandlers(Cur) /\ logsDir # "blocked" =>
         ActiveConfig(LoadModuleOn(Cur, env, deps).S) = ActiveConfig(Cur)

\* The bootstrap configured INFO and a later call has made it ERROR.
C4_Witness ==
    /\ env = EnvOf(Unset, Unset, "false")
    /\ module = "loaded"
    /\ outcome.op = "setup_logging"
    /\ outcome.status = "ok"
    /\ Configured(Cur)
    /\ root.level = ERROR
    /\ HandlerNamed(root, "console").level = ERROR

-----------------------------------------------------------------------------
(* C5                                                                      *)

\* C5 as claimed: with the sinks attached at level L, console and general
\* file both have threshold L and the error file has threshold ERROR.
C5_FileThresholdIsLevel ==
    Configured(Cur) =>
      /\ HandlerNamed(root, "console").level = root.level
      /\ HandlerNamed(root, "file").level = root.level
      /\ HandlerNamed(loggers[App], "error_file").level = ERROR

\* C5 amended: after setup_logging(level=L) has returned, the console sink
\* has threshold L, the general file sink has threshold DEBUG whatever L
\* is, and the error file sink has threshold ERROR; the root and
\* 'phishing_detection' loggers have threshold L.
C5_SinkThresholds ==
    Configured(Cur) =>
      /\ root.level \in Severities
      /\ loggers[App].level = root.level
      /\ \A lg \in {root, loggers[App]} :
           /\ HandlerNamed(lg, "console").level = root.level
           /\ HandlerNamed(lg, "file").level = DEBUG
      /\ HandlerNamed(loggers[App], "error_file").level = ERROR

\* setup_logging(level="ERROR") has returned: console ERROR, file DEBUG.
C5_Witness ==
    /\ outcome.op = "setup_logging"
    /\ outcome.status = "ok"
    /\ Configured(Cur)
    /\ root.level = ERROR
    /\ HandlerNamed(root, "console").level = ERROR
    /\ HandlerNamed(root, "file").level = DEBUG

-----------------------------------------------------------------------------
(* C6                                                                      *)

\* C6: in JSON mode every line a record leaves in the general log file is
\* one JSON object with a level field, a logger-name field and a message
\* field (under any of their usual keys).
C6_JsonLineFields ==
    \A n \in Handles(Cur), sev \in Severities :
      \A i \in DOMAIN Route(Cur, n, sev) :
        LET h == Route(Cur, n, sev)[i]
        IN (h.name = "file" /\ structlogJson /\ h.formatter = "json") =>
             /\ IsJsonLine(h.formatter)
             /\ LineFields(h.formatter) \cap {"level", "levelname"} # {}
             /\ LineFields(h.formatter) \cap {"logger", "logger_name", "name"} # {}
             /\ LineFields(h.formatter) \cap {"message", "event"} # {}

-----------------------------------------------------------------------------
(* C7                                                                      *)

BackupCap(path) == IF path = ErrorLogFile THEN ErrorBackupCount ELSE GeneralBackupCount

\* C7: a log file never has more backups than its cap (5 general, 3 error)
\* and never grows past maxBytes; a write appends only while the file stays
\* under maxBytes, and otherwise the file's content becomes the newest
\* backup, the older backups shift by one, and with the cap already
\* reached the oldest backup is the one dropped.
C7_RotationCap ==
    /\ [](\A p \in LogFiles :
            /\ Len(files[p].backups) <= BackupCap(p)
            /\ files[p].size <= maxBytes)
    /\ [][\A p \in LogFiles :
            (files'[p].size # files[p].size \/ files'[p].backups # files[p].backups) =>
               \/ /\ files'[p].backups = files[p].backups
                  /\ files'[p].size > files[p].size
                  /\ files'[p].size < maxBytes
               \/ /\ files[p].size + files'[p].size >= maxBytes
                  /\ files'[p].backups =
                       <<files[p].size>> \o
                       (IF Len(files[p].backups) < BackupCap(p) THEN files[p].backups
                        ELSE SubSeq(files[p].backups, 1, BackupCap(p) - 1))]_vars

\* Both files have rolled over up to their caps and hold a record.
C7_Witness ==
    /\ Len(files[DefaultLogFile].backups) = GeneralBackupCount
    /\ Len(files[ErrorLogFile].backups) = ErrorBackupCount
    /\ files[DefaultLogFile].size > 0
    /\ files[ErrorLogFile].size > 0
    /\ \E i \in 1..GeneralBackupCount :
          files[DefaultLogFile].backups[i] # files[DefaultLogFile].backups[1]

-----------------------------------------------------------------------------
(* C8                                                                      *)

\* C8: after a setup_logging call with any level name and flags, every
\* application handle that has no threshold of its own (whenever it was
\* obtained) is enabled, and its records at or above the level of the call
\* reach the console and the general file.
C8_EarlyHandlesReachSinks ==
    AfterSetupCall =>
      \A n \in Handles(Cur) \cap {AppChild, CliLogger} :
        InheritsRootLevel(Cur, n) \/ InApp(n) =>
          /\ ~loggers[n].disabled
          /\ \A sev \in Severities :
               sev >= CheckLevel(outcome.args[1]) /\ sev >= EffectiveLevel(Cur, n) =>
                 {"console", "file"} \subseteq Sinks(Cur, n, sev)

-----------------------------------------------------------------------------
(* C9                                                                      *)

\* C9: loading the module in a process whose root logger has no handlers
\* configures logging from LOG_LEVEL (default INFO), JSON_LOGS (default
\* false) and RICH_LOGS (default true) and then runs setup_ml_logging;
\* with a handler on the root logger neither runs and the configuration is
\* what it was.  (Stated of a load with the dependencies present, the logs
\* directory in place and LOG_LEVEL a level name.)
C9_BootstrapFromEnvironment ==
    (outcome.op = "import" /\ deps /\ logsDir = "present"
       /\ GetEnv(env, "LOG_LEVEL", "INFO") \in LevelNames) =>
      LET json == Lower(GetEnv(env, "JSON_LOGS", "false")) = "true"
          rich == Lower(GetEnv(env, "RICH_LOGS", "true")) = "true"
      IN /\ module = "loaded"
         /\ IF SinkNames(root) = <<"external">>
            THEN /\ root = FreshRootWith(ExternalHandler)
                 /\ loggers = [n \in Names |-> AbsentLogger]
                 /\ ~mlFilters /\ ~structlogJson
            ELSE /\ Configured(Cur)
                 /\ root.level = CheckLevel(GetEnv(env, "LOG_LEVEL", "INFO"))
                 /\ HandlerNamed(root, "console").cls =
                      (IF rich THEN "rich.logging.RichHandler" ELSE "logging.StreamHandler")
                 /\ HandlerNamed(root, "file").formatter = (IF json THEN "json" ELSE "detailed")
                 /\ mlFilters
                 /\ \A n \in MlLoggers : loggers[n].level = WARNING

-----------------------------------------------------------------------------
(* C10                                                                     *)

\* C10: a setup_logging call that cannot open one of its log files does not
\* return normally; a load of the module that cannot create the logs
\* directory fails; and cli.py goes on past its import only when the
\* module could not be imported for want of a dependency (the fallback) or
\* when the root logger really has sinks, with the file sinks' directory
\* in place when they are the configured ones.
C10_SetupFailuresReachTheCaller ==
    /\ module = "loaded" =>
         \A a \in SetupArgs :
           LET path == IF a[2] = NoFile THEN DefaultLogFile ELSE a[2]
           IN (~CanOpen(logsDir, ErrorLogFile) \/ ~CanOpen(logsDir, path)) =>
                ~SetupLoggingOn(Cur, a[1], a[2], a[3], a[4]).ok
    /\ (deps /\ logsDir = "blocked" /\ module # "unloaded") => module = "failed"
    /\ (deps /\ logsDir = "blocked" /\ cli # "none") => cli = "crashed"
    /\ cli = "fallback" => ~deps
    /\ cli \in {"ready", "main_done"} /\ deps =>
         /\ module = "loaded"
         /\ RootHasHandlers(Cur)
    /\ Configured(Cur) => logsDir = "present"

\* The bootstrap asked for a plain console and a valid level, the log files
\* could not be opened, and cli.py ended with the ValueError.
C10_Witness ==
    /\ cli = "crashed"
    /\ logsDir = "readonly"
    /\ root = FreshRoot
    /\ ~BootRich(env)
    /\ BootLevel(env) \in LevelNames
    /\ outcome = Result("cli_import", "ValueError")

-----------------------------------------------------------------------------
(* C11                                                                     *)

\* The five severities as get_logger may be given them, in several cases.
OverrideLevels == LevelNames \cup {"debug", "Info", "warning", "Error", "cRiTiCaL"}

\* The thresholds of the handlers attached to a logger.
SinkLevels(lg) == [i \in DOMAIN lg.handlers |-> lg.handlers[i].level]

\* C11: from every state, get_logger(n, L) with L one of the five
\* severities in any letter case returns and leaves logger n with
\* threshold L, whatever it had or inherited; the level of the root logger
\* and of every other logger, and the threshold of every sink, are what
\* they were.
C11_LevelOverrideFrame ==
    module = "loaded" =>
      \A n \in Names, l \in OverrideLevels :
        LET r == GetLoggerOn(Cur, n, l)
        IN /\ r.ok
           /\ r.S.loggers[n].exists
           /\ r.S.loggers[n].level = CheckLevel(Upper(l))
           /\ r.S.loggers[n].level \in Severities
           /\ r.S.root = root
           /\ \A m \in Names \ {n} : r.S.loggers[m] = loggers[m]
           /\ \A m \in Names : SinkLevels(r.S.loggers[m]) = SinkLevels(loggers[m])

\* The configuration put 'transformers' at WARNING and get_logger has
\* overridden it to DEBUG; the root logger is still at INFO.
C11_Witness ==
    /\ outcome = Result("get_logger", "ok")
    /\ Configured(Cur)
    /\ root.level = INFO
    /\ loggers[Transformers].level = DEBUG
    /\ loggers[Urllib3].level = WARNING
    /\ HandlerNamed(root, "console").level = INFO

-----------------------------------------------------------------------------
(* C12                                                                     *)

-----------------------------------------------------------------------------
(* C13                                                                     *)

\* The logging state C13 speaks of: the root and 'phishing_detection'
\* loggers with their levels and handlers, each handler open or closed.
LoggingState(S) == <<S.root, S.loggers[App]>>

\* C13: a setup_logging call on a plain console with a level name (one
\* that can fail only at its log files) either returns with the three
\* sinks attached or leaves the logging state exactly as it was.
C13_SetupAllOrNothing ==
    [][(outcome'.op = "setup_logging" /\ outcome'.args[1] \in LevelNames /\ ~outcome'.args[3]) =>
         \/ outcome'.status = "ok" /\ Configured(Cur)'
         \/ LoggingState(Cur)' = LoggingState(Cur)]_vars

-----------------------------------------------------------------------------
(* C14                                                                     *)

\* C14: after a setup_logging call with a level name, a plain console and
\* the default log file, in a working directory where logs/ is there or can
\* be created, the call has returned, the directory exists and both log
\* files have been opened in it.
C14_DirectoryBeforeSink ==
    (AfterSetupCall /\ ~outcome.args[3] /\ logsDir \in {"absent", "present"}) =>
      /\ outcome.status = "ok"
      /\ logsDir = "present"
      /\ files[DefaultLogFile].exists
      /\ files[ErrorLogFile].exists

-----------------------------------------------------------------------------
(* C15                                                                     *)

\* C15: no step (a load of the module or of cli.py, the group callback,
\* setup_logging, get_logger or setup_ml_logging, returning or raising)
\* takes the root logger from having handlers to having none.
C15_OneWayInitialization ==
    [][RootHasHandlers(Cur) => RootHasHandlers(Cur)']_vars

\* A setup_logging call has raised in a configured process: the root logger
\* still has its two sinks, closed but attached.
C15_Witness ==
    /\ outcome.op = "setup_logging"
    /\ outcome.status = "ValueError"
    /\ SinkNames(root) = <<"console", "file">>
    /\ \A i \in DOMAIN root.handlers : root.handlers[i].closed

-----------------------------------------------------------------------------
(* C16                                                                     *)

ThirdParty == {Transformers, Urllib3, Requests, Torch}

\* Where a record of a third-party logger at WARNING goes at a given
\* severity, with the console at threshold T: nowhere below WARNING, else to
\* the general file and, at or above T, to the console.
ThirdPartySinks(sev, T) ==
    IF sev < WARNING THEN {}
    ELSE {"file"} \cup (IF sev >= T THEN {"console"} ELSE {})

\* C16 as claimed: after a setup_logging or setup_ml_logging call has
\* returned, each of transformers, urllib3, requests and torch is at
\* WARNING and propagates, its records below WARNING reach no sink and
\* those at or above WARNING reach the console and the general file.
C16_NoiseFloorAllFour ==
    (outcome.op \in {"setup_logging", "setup_ml_logging"} /\ outcome.status = "ok") =>
      \A n \in ThirdParty :
        /\ loggers[n].exists
        /\ loggers[n].level = WARNING
        /\ loggers[n].propagate
        /\ \A sev \in Severities :
             IF sev < WARNING THEN Sinks(Cur, n, sev) = {}
             ELSE {"console", "file"} \subseteq Sinks(Cur, n, sev)

\* C16 amended: once setup_logging has returned, transformers, urllib3 and
\* requests are at WARNING, enabled, without handlers and propagating; once
\* setup_ml_logging has run, transformers, torch and urllib3 are at WARNING;
\* so all four are only after both.  A logger at WARNING drops its
\* records below WARNING, and with the sinks attached at level T sends the
\* others to the general file and, at or above T, to the console.
\* setup_ml_logging run again changes nothing.
C16_NoiseFloorPerCall ==
    /\ Configured(Cur) =>
         \A n \in {Transformers, Urllib3, Requests} :
           /\ loggers[n].exists /\ ~loggers[n].disabled
           /\ loggers[n].level = WARNING
           /\ loggers[n].propagate
           /\ loggers[n].handlers = <<>>
    /\ mlFilters =>
         /\ \A n \in {Transformers, Torch, Urllib3} :
              /\ loggers[n].exists
              /\ loggers[n].level = WARNING
              /\ loggers[n].propagate
         /\ SetupMlLoggingOn(Cur) = Cur
    /\ Configured(Cur) =>
         \A n \in ThirdParty, sev \in Severities :
           (loggers[n].exists /\ loggers[n].level = WARNING) =>
             Sinks(Cur, n, sev) = ThirdPartySinks(sev, root.level)
    /\ (outcome.op = "setup_ml_logging" /\ ~Configured(Cur)) => ~loggers[Requests].exists
    /\ (Configured(Cur) /\ ~mlFilters) => ~loggers[Torch].exists

\* setup_logging(level="ERROR") has returned after the bootstrap: a WARNING
\* record of transformers or torch reaches the general file only.
C16_Witness ==
    /\ outcome.op = "setup_logging"
    /\ outcome.status = "ok"
    /\ Configured(Cur)
    /\ mlFilters
    /\ root.level = ERROR
    /\ Sinks(Cur, Transformers, WARNING) = {"file"}
    /\ Sinks(Cur, Torch, WARNING) = {"file"}
    /\ Sinks(Cur, Torch, INFO) = {}

-----------------------------------------------------------------------------
(* C17                                                                     *)

\* C17: whichever way cli.py got past its import (the logger module
\* loaded, or the ImportError fallback), the group callback main completes
\* without an error, with and without --verbose.
C17_MainCompletes ==
    outcome.op = "cli_main" => (outcome.status = "ok" /\ cli = "main_done")

=============================================================================
